---- MODULE Spec2Model ----
(***************************************************************************)
(* simpcli: the command registry (Manager), its dispatch entry point run,  *)
(* the registration decorator command, and the process-wide logger with    *)
(* its console handler and optional file sink (set_logger_file).           *)
(*                                                                         *)
(* Source: src/src/simpcli/__init__.py, src/src/examples/basic.py          *)
(***************************************************************************)
EXTENDS Integers, Sequences, FiniteSets, TLC

VARIABLES
    commands,       \* Manager.commands: name -> command object
    consoleLevel,   \* logger_handler.level
    handlers,       \* logger.handlers
    log,            \* records the logger has handled, oldest first
    registered,     \* callables Manager.command has returned normally for
    last            \* the last call made on the module: its inputs and outcome

vars == <<commands, consoleLevel, handlers, log, registered, last>>

----------------------------------------------------------------------------
(* Bounds *)

\* Run is disabled once the log holds this many records.
MaxLog == 3

----------------------------------------------------------------------------
(* Program constants *)

\* logging.DEBUG, logging.INFO, logging.ERROR
DEBUG == 10
INFO == 20
ERROR == 40

\* result of run when ArgumentParser exits (except SystemExit)
ParseErrorCode == 10

\* result of run on any other fault (except BaseException)
UnhandledFault == -1

\* Python's None, as an argument or as a parsed value
None == "<None>"

\* "no exception"
NoExc == "none"

----------------------------------------------------------------------------
(* The Manager class *)

\* The attributes a Manager instance resolves: the dataclass field and the
\* members of the class body. __handle_command is name-mangled.
ManagerAttrs ==
    { "commands", "prog", "parameter", "command", "run",
      "_Manager__handle_command", "handle_main" }

\* self.<name>: an attribute outside the class body raises AttributeError.
HasAttr(name) == name \in ManagerAttrs

----------------------------------------------------------------------------
(* Inputs: registry contents, callables, argument vectors *)

CommandNames == { "no-args", "positional-args", "faulty" }

\* Command objects a registry may hold: the parameters the command takes and
\* what its run method does (return a value, or raise).
Catalogue ==
    [ n \in CommandNames |->
        CASE n = "no-args" ->
               [ params |-> << >>, raises |-> NoExc, returns |-> 0 ]
          [] n = "positional-args" ->
               [ params |-> << [ name |-> "one", type |-> "str" ],
                               [ name |-> "two", type |-> "int" ] >>,
                 raises |-> NoExc, returns |-> 0 ]
          [] n = "faulty" ->
               [ params |-> << >>, raises |-> "RuntimeError", returns |-> 0 ] ]

\* Every content the commands dict can have over the catalogue.
Registries == { [ n \in S |-> Catalogue[n] ] : S \in SUBSET CommandNames }

\* Objects handed to Manager.command: the two functions of the example and
\* the str "one" that manager.parameter("one") returns.
Funcs == { "no_args", "positional_args", "one" }

Callables == { "no_args", "positional_args" }

\* The argument vectors run is called with.
ArgVectors ==
    { << >>,
      << "--verbose" >>,
      << "no-args" >>,
      << "--verbose", "no-args" >>,
      << "positional-args", "hello", "5" >>,
      << "positional-args", "hello", "notanumber" >>,
      << "faulty" >>,
      << "bogus" >> }

\* int(text): defined on the numerals, ValueError elsewhere.
IntOf == [ t \in { "5", "0" } |-> IF t = "5" THEN 5 ELSE 0 ]

\* The file paths and pre-built handlers set_logger_file is called with.
Files == { None, "a.log", "b.log" }

PrebuiltHandlers == { None, "h1" }

----------------------------------------------------------------------------
(* Logging facility *)

\* logger_handler: the StreamHandler on sys.stdout
ConsoleHandler == [ kind |-> "StreamHandler", target |-> "stdout" ]

\* TimedRotatingFileHandler(file, when="D", backupCount=7)
FileSink(file) == [ kind |-> "TimedRotatingFileHandler", target |-> file ]

\* a handler object the caller built
PrebuiltSink(handler) == [ kind |-> "FileHandler", target |-> handler ]

\* logger.exception("Unhandled Exception:", exc_info=e): one record at ERROR
\* carrying the exception and its traceback.
ExceptionRecord(exc) ==
    [ levelno |-> ERROR, msg |-> "Unhandled Exception:", exc |-> exc,
      trace |-> TRUE ]

\* The file_handler set_logger_file selects, or the ValueError it raises
\* when neither a file nor a handler is given (sink is then unused).
SelectFileHandler(file, handler) ==
    IF file = None
    THEN IF handler = None
         THEN [ raised |-> "ValueError", sink |-> ConsoleHandler ]
         ELSE [ raised |-> NoExc, sink |-> PrebuiltSink(handler) ]
    ELSE IF handler = None
         THEN [ raised |-> NoExc, sink |-> FileSink(file) ]
         ELSE [ raised |-> NoExc, sink |-> PrebuiltSink(handler) ]

\* Mutant of NewHandlers: logger.handlers.append(file_handler)
NewHandlers_Append(hs, sink) == Append(hs, sink)

\* logger.handlers = [logger_handler, file_handler]
NewHandlers(hs, sink) == << ConsoleHandler, sink >>

----------------------------------------------------------------------------
(* Parser adapter: argparse configured from the registry *)

MapMinus(m, ks) == [ k \in DOMAIN m \ ks |-> m[k] ]

ParamNames(ps) == { ps[i].name : i \in 1..Len(ps) }

ParamIndex(ps, k) == CHOOSE i \in 1..Len(ps) : ps[i].name = k

\* type coercion of one token
Coerces(type, tok) == type # "int" \/ tok \in DOMAIN IntOf

Coerce(type, tok) == IF type = "int" THEN IntOf[tok] ELSE tok

\* parser.parse_args(cleaned_args): a namespace, or SystemExit.
ParseArgs(args, cmds) ==
    LET verbose == Len(args) > 0 /\ args[1] = "--verbose"
        rest == IF verbose THEN Tail(args) ELSE args
    IN  IF Len(rest) = 0
        THEN [ exc |-> NoExc,
               ns |-> [ k \in { "command", "verbose" } |->
                          IF k = "command" THEN None ELSE verbose ] ]
        ELSE IF rest[1] \notin DOMAIN cmds
        THEN [ exc |-> "SystemExit", ns |-> MapMinus(<< >>, {}) ]
        ELSE LET ps == cmds[rest[1]].params
                 toks == Tail(rest)
             IN  IF Len(toks) # Len(ps)
                    \/ \E i \in 1..Len(ps) : ~Coerces(ps[i].type, toks[i])
                 THEN [ exc |-> "SystemExit", ns |-> MapMinus(<< >>, {}) ]
                 ELSE [ exc |-> NoExc,
                        ns |-> [ k \in { "command", "verbose" } \cup ParamNames(ps) |->
                                   IF k = "command" THEN rest[1]
                                   ELSE IF k = "verbose" THEN verbose
                                   ELSE Coerce(ps[ParamIndex(ps, k)].type,
                                               toks[ParamIndex(ps, k)]) ] ]

----------------------------------------------------------------------------
(* Manager.run *)

NoKwargs == MapMinus(<< >>, {})

\* The outcome of a block of code: the exception it raised (NoExc: none),
\* the value it produced, the command it invoked and with which keywords,
\* and the console level it left.
Raise(exc, level) ==
    [ exc |-> exc, value |-> 0, invoked |-> None, kwargs |-> NoKwargs,
      level |-> level ]

\* Manager.__handle_command(parsed_args)
HandleCommand(parsed_args, cmds, level) ==
    LET command_name == IF "command" \in DOMAIN parsed_args
                        THEN parsed_args["command"] ELSE None
        kwargs == MapMinus(parsed_args, { "command" })
    IN  IF command_name = None
        THEN Raise("ValueError", level)
        ELSE IF command_name \notin DOMAIN cmds
        THEN Raise("ValueError", level)
        ELSE [ exc |-> cmds[command_name].raises,
               value |-> cmds[command_name].returns,
               invoked |-> command_name, kwargs |-> kwargs, level |-> level ]

\* The try block of run.
TryBody(args, cmds, level) ==
    IF ~HasAttr("create_parser")
    THEN Raise("AttributeError", level)
    ELSE LET p == ParseArgs(args, cmds)
         IN  IF p.exc # NoExc
             THEN Raise(p.exc, level)
             ELSE LET verbose == IF "verbose" \in DOMAIN p.ns
                                 THEN p.ns["verbose"] ELSE FALSE
                      parsed_args == MapMinus(p.ns, { "verbose" })
                  IN  HandleCommand(parsed_args, cmds,
                                    IF verbose THEN DEBUG ELSE level)

\* except <clause>: whether the clause catches the exception.
Catches(clause, exc) == clause = "BaseException" \/ clause = exc

\* Mutant of ExceptClauses: the BaseException clause logs and re-raises.
ExceptClauses_Reraise(t) ==
    IF t.exc = NoExc
    THEN [ returned |-> TRUE, result |-> t.value, escaped |-> NoExc,
           emitted |-> << >> ]
    ELSE IF Catches("SystemExit", t.exc)
    THEN [ returned |-> TRUE, result |-> ParseErrorCode, escaped |-> NoExc,
           emitted |-> << >> ]
    ELSE [ returned |-> FALSE, result |-> 0, escaped |-> t.exc,
           emitted |-> << ExceptionRecord(t.exc) >> ]

\* The except clauses of run and its return.
ExceptClauses(t) ==
    IF t.exc = NoExc
    THEN [ returned |-> TRUE, result |-> t.value, escaped |-> NoExc,
           emitted |-> << >> ]
    ELSE IF Catches("SystemExit", t.exc)
    THEN [ returned |-> TRUE, result |-> ParseErrorCode, escaped |-> NoExc,
           emitted |-> << >> ]
    ELSE IF Catches("BaseException", t.exc)
    THEN [ returned |-> TRUE, result |-> UnhandledFault, escaped |-> NoExc,
           emitted |-> << ExceptionRecord(t.exc) >> ]
    ELSE [ returned |-> FALSE, result |-> 0, escaped |-> t.exc,
           emitted |-> << >> ]

\* Mutant of CommandsAfterRun: a failed dispatch drops the registry's entries.
CommandsAfterRun_ClearsOnFault(cmds, t) ==
    IF t.exc = NoExc THEN cmds ELSE MapMinus(cmds, DOMAIN cmds)

\* The registry run leaves: run and __handle_command read self.commands
\* (commands.get) and never write it.
CommandsAfterRun(cmds, t) == cmds

----------------------------------------------------------------------------
(* State machine *)

NoCall ==
    [ op |-> "init", args |-> << >>, returned |-> FALSE, result |-> 0,
      raised |-> NoExc, invoked |-> None, kwargs |-> NoKwargs,
      thrown |-> NoExc, emitted |-> 0, levelAt |-> INFO,
      commandsBefore |-> MapMinus(<< >>, {}), handlersBefore |-> << >> ]

Init ==
    /\ commands \in Registries
    /\ consoleLevel = INFO
    /\ handlers = << ConsoleHandler >>
    /\ log = << >>
    /\ registered = {}
    /\ last = [ NoCall EXCEPT !.commandsBefore = commands,
                              !.handlersBefore = handlers ]

\* manager.run(*args)
Run(args) ==
    /\ Len(log) < MaxLog
    /\ LET t == TryBody(args, commands, consoleLevel)
           o == ExceptClauses(t)
       IN  /\ commands' = CommandsAfterRun(commands, t)
           /\ consoleLevel' = t.level
           /\ log' = log \o o.emitted
           /\ last' = [ op |-> "run", args |-> args,
                        returned |-> o.returned, result |-> o.result,
                        raised |-> o.escaped, invoked |-> t.invoked,
                        kwargs |-> t.kwargs, thrown |-> t.exc,
                        emitted |-> Len(o.emitted), levelAt |-> t.level,
                        commandsBefore |-> commands,
                        handlersBefore |-> handlers ]
    /\ UNCHANGED << handlers, registered >>

\* manager.command(func)
Command(func) ==
    /\ registered' = IF func \in Callables
                     THEN registered \cup { func } ELSE registered
    /\ last' = [ NoCall EXCEPT !.op = "command", !.args = << func >>,
                               !.returned = func \in Callables,
                               !.raised = IF func \in Callables
                                          THEN NoExc ELSE "TypeError",
                               !.levelAt = consoleLevel,
                               !.commandsBefore = commands,
                               !.handlersBefore = handlers ]
    /\ UNCHANGED << commands, consoleLevel, handlers, log >>

\* set_logger_file(file, handler=handler)
SetLoggerFile(file, handler) ==
    /\ LET s == SelectFileHandler(file, handler)
       IN  /\ handlers' = IF s.raised = NoExc
                          THEN NewHandlers(handlers, s.sink) ELSE handlers
           /\ last' = [ NoCall EXCEPT !.op = "set_logger_file",
                                      !.args = << file, handler >>,
                                      !.returned = (s.raised = NoExc),
                                      !.raised = s.raised,
                                      !.levelAt = consoleLevel,
                                      !.commandsBefore = commands,
                                      !.handlersBefore = handlers ]
    /\ UNCHANGED << commands, consoleLevel, log, registered >>

Next ==
    \/ \E args \in ArgVectors : Run(args)
    \/ \E func \in Funcs : Command(func)
    \/ \E file \in Files, handler \in PrebuiltHandlers : SetLoggerFile(file, handler)

Spec == Init /\ [][Next]_vars

----------------------------------------------------------------------------
(* Vocabulary of the properties *)

\* The CLI name the specification derives from a callable's identifier
\* (lower case, hyphenated).
DerivedName ==
    [ f \in Callables |-> IF f = "no_args" THEN "no-args" ELSE "positional-args" ]

\* The registry that holds exactly the commands of the callables fs.
RegistryOf(fs) == [ n \in { DerivedName[f] : f \in fs } |-> Catalogue[n] ]

RanRun == last.op = "run"

\* What the parser adapter makes of the last run's arguments.
LastParse == ParseArgs(last.args, last.commandsBefore)

ParsedOk == LastParse.exc = NoExc

ParsedCommand == LastParse.ns["command"]

\* The last record the logger handled.
LastRecord == log[Len(log)]

----------------------------------------------------------------------------
(* Properties *)

\* C1: run is total. Every call of run returns a Result and lets no
\* exception escape to its caller.
C1_RunIsTotal == RanRun => last.returned /\ last.raised = NoExc

\* C1 witness: a run over a non-empty registry in which a fault was raised
\* inside the try block, and run returned.
C1_Witness ==
    /\ RanRun /\ last.returned
    /\ last.thrown # NoExc
    /\ DOMAIN last.commandsBefore # {}
    /\ Len(last.args) > 0

\* C2: when the arguments fail at the parser level (unknown command name,
\* wrong number of arguments, text that does not coerce to the declared
\* type), run returns the parse-error code 10 and invokes no command.
C2_ParseFailureReturns10 ==
    RanRun /\ ~ParsedOk => last.result = ParseErrorCode /\ last.invoked = None

C4_RegisteredCommandRuns ==
    LET p == ParseArgs(last.args, RegistryOf(registered))
    IN  (RanRun /\ p.exc = NoExc /\ p.ns["command"] # None)
        => /\ last.invoked = p.ns["command"]
           /\ last.result = Catalogue[p.ns["command"]].returns

C7_VerboseOnlyThatRun ==
    (RanRun /\ ParsedOk)
    => last.levelAt = IF LastParse.ns["verbose"] THEN DEBUG ELSE INFO

C9_RunKeepsRegistry == RanRun /\ last.returned => commands = last.commandsBefore

\* C9 witness: run returned over a registry that holds commands, on
\* arguments naming one of them.
C9_Witness ==
    /\ RanRun /\ last.returned
    /\ Len(last.args) > 0
    /\ last.args[1] \in DOMAIN last.commandsBefore
    /\ commands = last.commandsBefore

\* C10: set_logger_file with neither a file nor a handler raises ValueError
\* and leaves logger.handlers as it was; with exactly one of them it sets
\* logger.handlers to the console handler followed by that one file sink,
\* so repeated calls replace the sink and the list never grows past two.
C10_SetLoggerFile ==
    last.op = "set_logger_file"
    => LET file == last.args[1]
           handler == last.args[2]
       IN  /\ (file = None /\ handler = None)
              => last.raised = "ValueError" /\ handlers = last.handlersBefore
           /\ (file # None /\ handler = None)
              => /\ last.raised = NoExc
                 /\ handlers = << ConsoleHandler, FileSink(file) >>
           /\ (file = None /\ handler # None)
              => /\ last.raised = NoExc
                 /\ handlers = << ConsoleHandler, PrebuiltSink(handler) >>

\* C10 witness: a call with exactly one of the two, made when a file sink
\* was already attached, has put a different sink in its place.
C10_Witness ==
    /\ last.op = "set_logger_file"
    /\ (last.args[1] = None) # (last.args[2] = None)
    /\ Len(last.handlersBefore) = 2
    /\ Len(handlers) = 2
    /\ handlers[2] # last.handlersBefore[2]

====
